---------------------------- MODULE Spec2Model ----------------------------
(***************************************************************************)
(* Model of controle_ventilation_cave.ino: the periodic loop that reads    *)
(* the humidity, quantizes it, and drives a stepper by position deltas.    *)
(*                                                                         *)
(* Humidity readings (float humidite) are modelled in tenths of a percent: *)
(* the integer t stands for the reading t/10.  Readings are real numbers   *)
(* (no NaN).  All other quantities are the program's integers.             *)
(***************************************************************************)
EXTENDS Integers, Sequences, FiniteSets, TLC

(* ------------------------------ bounds --------------------------------- *)
NegReading  == 100      \* depth of the loop's negative readings, in tenths
MinReading  == -NegReading   \* lowest reading of the loop (-10.0 %)
MaxReading  == 1000     \* highest reading of the loop, in tenths (100.0 %)
ReadingGrid == 25       \* the loop's readings are the multiples of this (tenths)
MaxCycles   == 3        \* number of loop() calls explored
NegH        == 10       \* argument range of the pure functions: MinH..MaxH
MinH        == -NegH
MaxH        == 105
NegTenth    == 130      \* argument range of the quantizer, in tenths
MinTenth    == -NegTenth
MaxTenth    == 1030

(* --------------------------- program constants ------------------------- *)
NB_STEPS       == 6
MIN_RATE_POWER == 50
MAX_RATE_POWER == 80
PERCENT_POWER_STEP_CENTI == 1667    \* PERCENT_POWER_STEP = 16.67, in hundredths
MIN_POWER      == 17
ROTATION_MIN   == 0
ROTATION_MAX   == 990
ROTATION_STEP  == 165

\* Readings close to the conversions' edges, added to the grid: -1.9, -1.0,
\* -0.4 (truncate to -1, -1, 0), 52.4, 53.7, 57.6 (truncation, rounding and
\* integer division disagree).
EdgeReadings == {-19, -10, -4, 524, 537, 576}

Readings == {t \in MinReading..MaxReading : t % ReadingGrid = 0} \cup EdgeReadings

(* ------------------------- arithmetic of the code ---------------------- *)
Abs(x) == IF x < 0 THEN -x ELSE x

\* C integer division: truncation toward zero (b > 0).
IntDiv(a, b) == IF a >= 0 THEN a \div b ELSE -((-a) \div b)

\* Conversion float -> int of "h_avant = humidite": the fraction is dropped.
FloatToInt(t) == IntDiv(t, 10)

\* Variant: the fraction is dropped instead of rounded, as a (long) cast does.
RoundTrunc(num, den) == IntDiv(num, den)

\* round(x) for x = num/den (den > 0): nearest integer, ties away from zero.
Round(num, den) ==
    IF num >= 0 THEN (2 * num + den) \div (2 * den)
                ELSE -((2 * (-num) + den) \div (2 * den))

\* Variant: the reading is rounded to a whole percent, not to a multiple of 5.
QuantizeNoGrid(t) == Round(t, 10)

\* h = round(humidite / 5) * 5, humidite = t/10.
Quantize(t) == Round(t, 50) * 5

\* Variant: the saturation at MAX_RATE_POWER is missing.
positionMoteurNoCeil(hh) ==
    IF hh < 0 THEN -1
    ELSE IF hh <= MIN_RATE_POWER THEN 0
    ELSE Round(IntDiv(hh - MIN_RATE_POWER, 5), 1)

positionMoteur(hh) ==
    IF hh < 0 THEN -1
    ELSE IF hh <= MIN_RATE_POWER THEN 0
    ELSE IF hh >= MAX_RATE_POWER THEN NB_STEPS
    ELSE Round(IntDiv(hh - MIN_RATE_POWER, 5), 1)

\* Variant: the inversion of the physical rotation is missing.
rotationMoteurNoNeg(hh, ha) ==
    LET pos_h_  == positionMoteur(hh)
        pos_ha_ == positionMoteur(ha)
        delta_pos == IF pos_h_ >= 0 /\ pos_ha_ >= 0 THEN pos_h_ - pos_ha_ ELSE 0
    IN  delta_pos

\* Variant: the validity test uses || instead of &&.
rotationMoteurOr(hh, ha) ==
    LET pos_h_  == positionMoteur(hh)
        pos_ha_ == positionMoteur(ha)
        delta_pos == IF pos_h_ >= 0 \/ pos_ha_ >= 0 THEN pos_h_ - pos_ha_ ELSE 0
    IN  -delta_pos

\* Variant: the previous position is tested with > 0 instead of >= 0.
rotationMoteurStrictPrev(hh, ha) ==
    LET pos_h_  == positionMoteur(hh)
        pos_ha_ == positionMoteur(ha)
        delta_pos == IF pos_h_ >= 0 /\ pos_ha_ > 0 THEN pos_h_ - pos_ha_ ELSE 0
    IN  -delta_pos

\* rotationMoteur(h); ha is the global h_avant the function reads.
rotationMoteur(hh, ha) ==
    LET pos_h_  == positionMoteur(hh)
        pos_ha_ == positionMoteur(ha)
        delta_pos == IF pos_h_ >= 0 /\ pos_ha_ >= 0 THEN pos_h_ - pos_ha_ ELSE 0
    IN  -delta_pos

\* Variant: the step count is a real quotient, not an integer division.
puissanceMoteurReal(hh) ==
    IF hh <= MIN_RATE_POWER THEN MIN_POWER
    ELSE IF hh >= MAX_RATE_POWER THEN 100
    ELSE Round((hh - MIN_RATE_POWER) * PERCENT_POWER_STEP_CENTI, 500)

\* Variant: the lower threshold is tested with < instead of <=.
puissanceMoteurStrict(hh) ==
    IF hh < MIN_RATE_POWER THEN MIN_POWER
    ELSE IF hh >= MAX_RATE_POWER THEN 100
    ELSE Round(IntDiv(hh - MIN_RATE_POWER, 5) * PERCENT_POWER_STEP_CENTI, 100)

puissanceMoteur(hh) ==
    IF hh <= MIN_RATE_POWER THEN MIN_POWER
    ELSE IF hh >= MAX_RATE_POWER THEN 100
    ELSE Round(IntDiv(hh - MIN_RATE_POWER, 5) * PERCENT_POWER_STEP_CENTI, 100)

(* -------------------------------- state -------------------------------- *)
VARIABLES
    pc,          \* position of the program
    h_avant,     \* global: previous humidity value
    humidite,    \* loop local: the reading, in tenths
    h,           \* loop local: quantized humidity
    r,           \* loop local: rotation coefficient
    p,           \* loop local: power
    pos_h,       \* rotationMoteur local
    pos_ha,      \* rotationMoteur local
    ecran,       \* display: <<>> when cleared, <<p>> when showing power p
    angle,       \* logical angle of the actuator: 0 after homing, step(n) adds -n
    cmds,        \* step commands issued by the current loop() call
    cycles,      \* history: completed loop() calls
    initRuns,    \* history: executions of the first-pass branch
    seed,        \* history: value stored in h_avant by the first-pass branch
    first_hum,   \* history: the reading of the first loop() call
    sumRot,      \* history: sum of the values returned by rotationMoteur
    ha_prev,     \* history: h_avant as left by the previous loop() call
    writes,      \* history: assignments to h_avant in the current loop() call
    allValid,    \* history: every reading so far was in [0,100]
    sumStep      \* history: sum of the step counts commanded by loop()

vars == <<pc, h_avant, humidite, h, r, p, pos_h, pos_ha, ecran, angle, cmds,
          cycles, initRuns, seed, first_hum, sumRot, ha_prev, writes,
          allValid, sumStep>>

locals  == <<humidite, h, r, p, pos_h, pos_ha>>
history == <<cycles, initRuns, seed, first_hum, sumRot, ha_prev, writes,
             allValid, sumStep>>

Init ==
    /\ pc = "setup"
    /\ h_avant = -1
    /\ humidite = 0 /\ h = 0 /\ r = 0 /\ p = 0 /\ pos_h = 0 /\ pos_ha = 0
    /\ ecran = <<>>
    /\ angle = 0
    /\ cmds = <<>>
    /\ cycles = 0 /\ initRuns = 0 /\ seed = -1 /\ first_hum = 0
    /\ sumRot = 0 /\ ha_prev = -1 /\ writes = 0
    /\ allValid = TRUE /\ sumStep = 0

(* ------------------------------- setup() ------------------------------- *)
\* Either device may fail to start: the program then spins in while(1).
\* Otherwise the stepper is homed to the minimum-power stop (angle 0).
Setup ==
    /\ pc = "setup"
    /\ \E bme_ok \in BOOLEAN, oled_ok \in BOOLEAN :
          IF bme_ok /\ oled_ok
          THEN /\ pc' = "read"
               /\ angle' = 0
          ELSE /\ pc' = "halt"
               /\ UNCHANGED angle
    /\ UNCHANGED <<h_avant, locals, ecran, cmds, history>>

(* -------------------------------- loop() ------------------------------- *)
\* lines 90-94: the sensor is read, h = 0
ReadSensors ==
    /\ pc = "read"
    /\ cycles < MaxCycles
    /\ \E t \in Readings : humidite' = t
    /\ h' = 0
    /\ first_hum' = IF cycles = 0 THEN humidite' ELSE first_hum
    /\ allValid' = (allValid /\ humidite' >= 0 /\ humidite' <= 1000)
    /\ pc' = "test"
    /\ UNCHANGED <<h_avant, r, p, pos_h, pos_ha, ecran, angle, cmds,
                   cycles, initRuns, seed, sumRot, ha_prev, writes, sumStep>>

\* lines 96-99: first pass
FirstPass ==
    /\ pc = "test"
    /\ h_avant = -1
    /\ h_avant' = FloatToInt(humidite)
    /\ ecran' = <<>>
    /\ initRuns' = initRuns + 1
    /\ seed' = h_avant'
    /\ writes' = writes + 1
    /\ pc' = "return"
    /\ UNCHANGED <<locals, angle, cmds, cycles, first_hum, sumRot, ha_prev,
                   allValid, sumStep>>

\* line 103
QuantizeReading ==
    /\ pc = "test"
    /\ h_avant # -1
    /\ h' = Quantize(humidite)
    /\ pc' = "rotation"
    /\ UNCHANGED <<h_avant, humidite, r, p, pos_h, pos_ha, ecran, angle, cmds, history>>

\* Variant: h_avant is saved before the rotation is computed.
ComputeRotationSavedFirst ==
    /\ pc = "rotation"
    /\ h_avant' = h
    /\ writes' = writes + 1
    /\ pos_h' = positionMoteur(h)
    /\ pos_ha' = positionMoteur(h_avant')
    /\ r' = rotationMoteur(h, h_avant')
    /\ sumRot' = sumRot + r'
    /\ pc' = "puissance"
    /\ UNCHANGED <<humidite, h, p, ecran, angle, cmds,
                   cycles, initRuns, seed, first_hum, ha_prev,
                   allValid, sumStep>>

\* line 105
ComputeRotation ==
    /\ pc = "rotation"
    /\ pos_h' = positionMoteur(h)
    /\ pos_ha' = positionMoteur(h_avant)
    /\ r' = rotationMoteur(h, h_avant)
    /\ sumRot' = sumRot + r'
    /\ pc' = "puissance"
    /\ UNCHANGED <<h_avant, humidite, h, p, ecran, angle, cmds,
                   cycles, initRuns, seed, first_hum, ha_prev, writes,
                   allValid, sumStep>>

\* line 106
ComputePower ==
    /\ pc = "puissance"
    /\ p' = puissanceMoteur(h)
    /\ pc' = "affichage"
    /\ UNCHANGED <<h_avant, humidite, h, r, pos_h, pos_ha, ecran, angle, cmds, history>>

\* line 109
affichageEcranOLED ==
    /\ pc = "affichage"
    /\ ecran' = <<p>>
    /\ pc' = "step"
    /\ UNCHANGED <<h_avant, locals, angle, cmds, history>>

\* line 113
StepMotor ==
    /\ pc = "step"
    /\ cmds' = Append(cmds, r * ROTATION_STEP)
    /\ angle' = angle - r * ROTATION_STEP
    /\ sumStep' = sumStep + r * ROTATION_STEP
    /\ pc' = "save"
    /\ UNCHANGED <<h_avant, locals, ecran, cycles, initRuns, seed, first_hum,
                   sumRot, ha_prev, writes, allValid>>

\* Variant: the raw reading is saved, as the first pass does.
SaveStateRaw ==
    /\ pc = "save"
    /\ h_avant' = FloatToInt(humidite)
    /\ writes' = writes + 1
    /\ pc' = "delay"
    /\ UNCHANGED <<locals, ecran, angle, cmds, cycles, initRuns, seed,
                   first_hum, sumRot, ha_prev,
                   allValid, sumStep>>

\* line 115
SaveState ==
    /\ pc = "save"
    /\ h_avant' = h
    /\ writes' = writes + 1
    /\ pc' = "delay"
    /\ UNCHANGED <<locals, ecran, angle, cmds, cycles, initRuns, seed,
                   first_hum, sumRot, ha_prev,
                   allValid, sumStep>>

\* lines 119-121: after the first pass (pc = "return") loop() returns at once,
\* after the other passes (pc = "delay") it waits DELAY ms first; its locals
\* die and the runtime calls it again.
LoopReturn ==
    /\ pc \in {"return", "delay"}
    /\ pc' = "read"
    /\ humidite' = 0 /\ h' = 0 /\ r' = 0 /\ p' = 0 /\ pos_h' = 0 /\ pos_ha' = 0
    /\ cmds' = <<>>
    /\ writes' = 0
    /\ ha_prev' = h_avant
    /\ cycles' = cycles + 1
    /\ UNCHANGED <<h_avant, ecran, angle, initRuns, seed, first_hum, sumRot,
                   allValid, sumStep>>

Next ==
    \/ Setup
    \/ ReadSensors
    \/ FirstPass
    \/ QuantizeReading
    \/ ComputeRotation
    \/ ComputePower
    \/ affichageEcranOLED
    \/ StepMotor
    \/ SaveState
    \/ LoopReturn

Spec == Init /\ [][Next]_vars

(* ------------------ the pure functions, applied to inputs --------------- *)
zeroHistory ==
    /\ cycles = 0 /\ initRuns = 0 /\ seed = -1 /\ first_hum = 0
    /\ sumRot = 0 /\ ha_prev = -1 /\ writes = 0
    /\ allValid = TRUE /\ sumStep = 0

\* Arguments h and (global) h_avant drawn from MinH..MaxH.
FnInit ==
    /\ pc = "call"
    /\ h \in MinH..MaxH
    /\ h_avant \in MinH..MaxH
    /\ humidite = 0 /\ r = 0 /\ p = 0 /\ pos_h = 0 /\ pos_ha = 0
    /\ ecran = <<>> /\ angle = 0 /\ cmds = <<>>
    /\ zeroHistory

CallPositionMoteur ==
    /\ pc = "call"
    /\ pos_h' = positionMoteur(h)
    /\ pc' = "positionMoteur"
    /\ UNCHANGED <<h_avant, humidite, h, r, p, pos_ha, ecran, angle, cmds, history>>

CallRotationMoteur ==
    /\ pc = "call"
    /\ pos_h' = positionMoteur(h)
    /\ pos_ha' = positionMoteur(h_avant)
    /\ r' = rotationMoteur(h, h_avant)
    /\ sumRot' = sumRot + r'
    /\ pc' = "rotationMoteur"
    /\ UNCHANGED <<h_avant, humidite, h, p, ecran, angle, cmds,
                   cycles, initRuns, seed, first_hum, ha_prev, writes,
                   allValid, sumStep>>

\* A second call with the current and the previous value exchanged.
CallRotationSwapped ==
    /\ pc = "rotationMoteur"
    /\ h' = h_avant
    /\ h_avant' = h
    /\ pos_h' = positionMoteur(h')
    /\ pos_ha' = positionMoteur(h_avant')
    /\ r' = rotationMoteur(h', h_avant')
    /\ sumRot' = sumRot + r'
    /\ pc' = "rotationSwapped"
    /\ UNCHANGED <<humidite, p, ecran, angle, cmds,
                   cycles, initRuns, seed, first_hum, ha_prev, writes,
                   allValid, sumStep>>

CallPuissanceMoteur ==
    /\ pc = "call"
    /\ p' = puissanceMoteur(h)
    /\ pc' = "puissanceMoteur"
    /\ UNCHANGED <<h_avant, humidite, h, r, pos_h, pos_ha, ecran, angle, cmds, history>>

FnNext ==
    \/ CallPositionMoteur
    \/ CallRotationMoteur
    \/ CallRotationSwapped
    \/ CallPuissanceMoteur

SpecFn == FnInit /\ [][FnNext]_vars

\* The quantization of line 103 applied to every reading of MinTenth..MaxTenth.
QInit ==
    /\ pc = "call"
    /\ humidite \in MinTenth..MaxTenth
    /\ h_avant = -1
    /\ h = 0 /\ r = 0 /\ p = 0 /\ pos_h = 0 /\ pos_ha = 0
    /\ ecran = <<>> /\ angle = 0 /\ cmds = <<>>
    /\ zeroHistory

CallQuantize ==
    /\ pc = "call"
    /\ h' = Quantize(humidite)
    /\ pc' = "quantized"
    /\ UNCHANGED <<h_avant, humidite, r, p, pos_h, pos_ha, ecran, angle, cmds, history>>

\* The quantized value (an integer number of percent) is quantized again.
CallRequantize ==
    /\ pc = "quantized"
    /\ humidite' = h * 10
    /\ h' = Quantize(humidite')
    /\ pc' = "requantized"
    /\ UNCHANGED <<h_avant, r, p, pos_h, pos_ha, ecran, angle, cmds, history>>

QNext ==
    \/ CallQuantize
    \/ CallRequantize

SpecQuantize == QInit /\ [][QNext]_vars

(* ------------------------------- properties ---------------------------- *)

\* C1: when the first reading is valid, after every STEADY cycle that leaves a
\* non-negative h_avant, positionMoteur(h_avant) is the position the actuator
\* was commanded to: positionMoteur(seed) minus the sum of the rotations
\* returned by rotationMoteur so far.
C1_StateIsCommandedPosition ==
    (pc = "delay" /\ first_hum >= 0 /\ h_avant >= 0)
        => positionMoteur(h_avant) = positionMoteur(seed) - sumRot

\* C2: after the first pass on a valid first reading in [0,100], h_avant is
\* the quantized reading round(h0/5)*5 and no step command was issued.
C2_SeedIsQuantized ==
    (pc = "return" /\ cycles = 0 /\ humidite >= 0 /\ humidite <= 1000)
        => (h_avant = Quantize(humidite) /\ cmds = <<>>)

\* C3: for every integer h in [0,100], puissanceMoteur(h) is in [MIN_POWER,100]
\* and no larger argument of that range gives a smaller power.
C3_PowerBoundedMonotone ==
    (pc = "puissanceMoteur" /\ h >= 0 /\ h <= 100)
        => /\ p >= MIN_POWER /\ p <= 100
           /\ \A h2 \in h..100 : p <= puissanceMoteur(h2)

\* C4: for every integer h in [0,100], positionMoteur(h) is in [0,NB_STEPS] and
\* non-decreasing in h; for every h < 0 it is -1.
C4_PositionBoundedMonotone ==
    /\ (pc \in {"positionMoteur", "rotationMoteur"} /\ h >= 0 /\ h <= 100)
           => (pos_h >= 0 /\ pos_h <= NB_STEPS)
    /\ (pc \in {"positionMoteur", "rotationMoteur"} /\ h < 0) => pos_h = -1
    /\ (pc = "rotationMoteur" /\ 0 <= h /\ h <= h_avant /\ h_avant <= 100)
           => pos_h <= pos_ha

C4_Witness ==
    /\ pc = "rotationMoteur"
    /\ h = 53 /\ h_avant = 79
    /\ pos_h = 0 /\ pos_ha = 5

\* C5: in a STEADY cycle whose quantized humidity or whose stored previous
\* value is negative, rotationMoteur returns 0 and the cycle commands step(0).
C5_FailSafeZeroStep ==
    /\ (pc \in {"puissance", "affichage", "step", "save"} /\ (h < 0 \/ h_avant < 0))
           => r = 0
    /\ (pc = "save" /\ (h < 0 \/ h_avant < 0)) => cmds = <<0>>
    /\ (pc = "delay" /\ (h < 0 \/ ha_prev < 0)) => cmds = <<0>>

C5_Witness ==
    /\ pc = "save"
    /\ h_avant < 0 /\ h = 80
    /\ cmds = <<0>>

\* C6: once h_avant differs from -1 no step of the program makes it -1 again,
\* and the first-pass branch is not executed again.
C6_NoWayBack ==
    [][h_avant # -1 => (h_avant' # -1 /\ initRuns' = initRuns)]_vars

C6_Witness ==
    /\ pc = "delay"
    /\ cycles = 2 /\ initRuns = 1
    /\ ha_prev < 0
    /\ humidite = -10 /\ h_avant = 0

\* C7: positionMoteur is 0 and puissanceMoteur is 17 for 0 <= h <= 50;
\* positionMoteur is 6 and puissanceMoteur is 100 for h >= 80.
C7_SaturatedRegions ==
    /\ (pc = "positionMoteur" /\ 0 <= h /\ h <= 50) => pos_h = 0
    /\ (pc = "positionMoteur" /\ h >= 80) => pos_h = 6
    /\ (pc = "puissanceMoteur" /\ 0 <= h /\ h <= 50) => p = 17
    /\ (pc = "puissanceMoteur" /\ h >= 80) => p = 100

C7_Witness ==
    /\ pc = "puissanceMoteur"
    /\ h = 50 /\ p = 17

\* C8: for non-negative a and b, the rotation for current a, previous b and
\* the rotation for current b, previous a are opposite: the two calls sum to 0.
C8_Antisymmetry ==
    (pc = "rotationSwapped" /\ h >= 0 /\ h_avant >= 0)
        => sumRot = 0

C8_Witness ==
    /\ pc = "rotationSwapped"
    /\ h = 50 /\ h_avant = 65
    /\ r = 3

\* C9: the quantized value is a multiple of 5 at most 2.5 away from the
\* reading, and quantizing a quantized value returns it unchanged.
C9_QuantizeNearestIdempotent ==
    /\ (pc = "quantized") => (h % 5 = 0 /\ Abs(h * 10 - humidite) <= 25)
    /\ (pc = "requantized") => h * 10 = humidite

C9_Witness ==
    /\ pc = "requantized"
    /\ h = -5 /\ humidite = -50

\* C10: in a STEADY cycle the rotation is computed from the h_avant left by
\* the previous cycle, h_avant is assigned exactly once, and at the end of
\* the cycle it is the quantized humidity of the cycle's reading.
C10_ReadThenOverwriteOnce ==
    /\ (pc \in {"puissance", "affichage", "step", "save"})
           => (h_avant = ha_prev /\ writes = 0 /\ r = rotationMoteur(h, ha_prev))
    /\ (pc = "delay")
           => (r = rotationMoteur(h, ha_prev) /\ writes = 1
               /\ h_avant = Quantize(humidite))

C10_Witness ==
    /\ pc = "delay"
    /\ ha_prev = 50 /\ h_avant = 80
    /\ r = -6 /\ writes = 1

\* C11: in a STEADY cycle whose quantized humidity and previous h_avant are
\* both non-negative, the command is
\* step(-(positionMoteur(h) - positionMoteur(h_avant)) * ROTATION_STEP): it is
\* step(0) when the quantized humidity is unchanged and never exceeds
\* ROTATION_MAX in magnitude.
C11_StepIsPositionDelta ==
    (pc = "save" /\ h >= 0 /\ h_avant >= 0)
        => /\ cmds = <<-(positionMoteur(h) - positionMoteur(h_avant)) * ROTATION_STEP>>
           /\ (h = h_avant => cmds = <<0>>)
           /\ Abs(cmds[1]) <= ROTATION_MAX

C11_Witness ==
    /\ pc = "save"
    /\ h_avant = 50 /\ h = 80
    /\ cmds = <<-ROTATION_MAX>>

\* C12: whatever the first reading, after the first loop() call h_avant
\* differs from -1 and the first-pass branch has run exactly once, then and
\* ever after.
C12_FirstCycleLeaves ==
    (cycles >= 1 \/ pc = "return") => (h_avant # -1 /\ initRuns = 1)

\* C13: for 50 < h < 80, positionMoteur(h) is (h - 50) / 5 as a real number
\* rounded to the nearest integer.
C13_PositionIsRoundedQuotient ==
    (pc = "positionMoteur" /\ 50 < h /\ h < 80)
        => pos_h = Round(h - MIN_RATE_POWER, 5)

C15_StepsTelescope ==
    (allValid /\ pc = "delay")
        => sumStep = -ROTATION_STEP * (positionMoteur(h_avant) - positionMoteur(seed))

C15_Witness ==
    /\ allValid /\ pc = "delay"
    /\ cycles = 2
    /\ seed = 53 /\ ha_prev = 80 /\ h_avant = 60
    /\ sumStep = -2 * ROTATION_STEP

\* C16: with the actuator at logical angle 0 after homing and step(n) adding
\* -n, while every reading is valid the angle stays in
\* [ROTATION_MIN, ROTATION_MAX] after every cycle and is
\* positionMoteur(h) * ROTATION_STEP after every STEADY cycle.
C16_AngleTracksPosition ==
    allValid
        => /\ (pc \in {"return", "delay"})
                  => (angle >= ROTATION_MIN /\ angle <= ROTATION_MAX)
           /\ (pc = "delay") => angle = positionMoteur(h) * ROTATION_STEP

\* C17: in every STEADY cycle the power handed to the display is in [17,100],
\* puissanceMoteur being called with a multiple of 5; for a non-negative
\* quantized h it is max(17, round(positionMoteur(h) * 16.67)).
Max(a, b) == IF a >= b THEN a ELSE b

C17_DisplayedPower ==
    (pc \in {"step", "save", "delay"})
        => /\ ecran = <<p>>
           /\ h % 5 = 0
           /\ p >= MIN_POWER /\ p <= 100
           /\ (h >= 0) => p = Max(17, Round(positionMoteur(h) * PERCENT_POWER_STEP_CENTI, 100))

C17_Witness ==
    /\ pc = "step"
    /\ humidite = 576 /\ h = 60
    /\ ecran = <<33>>

=============================================================================
